---- MODULE Spec2Model ----
(***************************************************************************)
(* byte_struct: packing and unpacking of fixed-layout structures.          *)
(*                                                                         *)
(* The model follows the two crates of the repository:                     *)
(*   byte_struct         the traits, the implementations for the primitive *)
(*                       types and arrays, and the bitfields! macro;       *)
(*   byte_struct_derive  the derive macro that generates write_bytes,      *)
(*                       read_bytes and BYTE_LEN for a struct.             *)
(*                                                                         *)
(* Representation of values.  TLC's integers are 32 bits wide, so an       *)
(* integer wider than 16 bits is a sequence of 16-bit limbs, the most      *)
(* significant first (0x9abcdef0 is <<\h9abc, \hdef0>>).  u8, u16, i8 and  *)
(* i16 values are plain integers.  A float is the record [bits |-> b] of   *)
(* its IEEE bit pattern b (the limbs of a u32 or u64).  A bitfield value   *)
(* is the sequence of its members in declaration order, an array value a   *)
(* sequence of element values, a struct value the sequence of its field    *)
(* values.  A byte buffer is a sequence of numbers in 0..255.              *)
(***************************************************************************)
EXTENDS Integers, Sequences, FiniteSets, TLC

VARIABLES
    overflow_checks,  \* the build's overflow-checks setting (debug / release)
    pc,               \* position of the caller
    schema,           \* the struct declaration handed to the derive macro
    value,            \* the struct value being packed
    impl,             \* what the derive macro made of the declaration
    bytes,            \* the caller's buffer
    before,           \* the buffer as it was before the last write_bytes
    wr,               \* outcome of the last write_bytes
    rd,               \* outcome of the last read_bytes
    decl,             \* a bitfields! declaration
    raw,              \* the base integer handed to from_raw
    members,          \* the members handed to to_raw
    order,            \* the default byte order a bitfield is packed under
    bf,               \* outcome of from_raw
    packed            \* outcome of to_raw

vars == <<overflow_checks, pc, schema, value, impl, bytes, before, wr, rd,
          decl, raw, members, order, bf, packed>>

(***************************************************************************)
(* Arithmetic helpers.                                                     *)
(***************************************************************************)
RECURSIVE Pow2(_)
Pow2(n) == IF n = 0 THEN 1 ELSE 2 * Pow2(n - 1)

RECURSIVE BitAnd(_, _)
BitAnd(a, b) ==
    IF a = 0 \/ b = 0 THEN 0
    ELSE 2 * BitAnd(a \div 2, b \div 2) + (IF a % 2 = 1 /\ b % 2 = 1 THEN 1 ELSE 0)

RECURSIVE BitOr(_, _)
BitOr(a, b) ==
    IF a = 0 THEN b
    ELSE IF b = 0 THEN a
    ELSE 2 * BitOr(a \div 2, b \div 2) + (IF a % 2 = 1 \/ b % 2 = 1 THEN 1 ELSE 0)

RECURSIVE SumSeq(_)
SumSeq(s) == IF s = <<>> THEN 0 ELSE Head(s) + SumSeq(Tail(s))

(***************************************************************************)
(* The primitive types: impl ByteStructLen for u8 ... f64.                 *)
(***************************************************************************)
PrimNames == {"u8", "i8", "u16", "i16", "u32", "u64", "u128", "f32", "f64"}

PrimByteLen(name) ==
    CASE name \in {"u8", "i8"}   -> 1
      [] name \in {"u16", "i16"} -> 2
      [] name \in {"u32", "f32"} -> 4
      [] name \in {"u64", "f64"} -> 8
      [] name = "u128"           -> 16

IsSigned(name) == name \in {"i8", "i16"}

IsFloat(name) == name \in {"f32", "f64"}

\* f32::to_bits / f64::to_bits: the float's bit pattern as a u32 / u64.
to_bits(name, v) == IF IsFloat(name) THEN v.bits ELSE v

\* f32::from_bits / f64::from_bits.
from_bits(name, b) == IF IsFloat(name) THEN [bits |-> b] ELSE b

\* The limbs of an integer value: a narrow value is one limb holding its
\* two's complement bit pattern.
ToLimbs(name, v) ==
    LET n == PrimByteLen(name) IN
    IF n <= 2
    THEN IF IsSigned(name) /\ v < 0 THEN <<v + Pow2(8 * n)>> ELSE <<v>>
    ELSE v

FromLimbs(name, L) ==
    LET n == PrimByteLen(name) IN
    IF n <= 2
    THEN IF IsSigned(name) /\ L[1] >= Pow2(8 * n - 1) THEN L[1] - Pow2(8 * n) ELSE L[1]
    ELSE L

\* Byte j of a limb sequence, j = 0 being the least significant byte.
ByteOf(L, j) ==
    LET limb == L[Len(L) - (j \div 2)] IN
    IF j % 2 = 0 THEN limb % 256 ELSE limb \div 256

\* <int>::to_le_bytes: least significant byte first.
to_le_bytes(name, v) ==
    LET L == ToLimbs(name, v) IN
    [i \in 1..PrimByteLen(name) |-> ByteOf(L, i - 1)]

\* <int>::to_be_bytes: most significant byte first.
to_be_bytes(name, v) ==
    LET n == PrimByteLen(name)
        L == ToLimbs(name, v) IN
    [i \in 1..n |-> ByteOf(L, n - i)]

\* <int>::from_le_bytes on an array of exactly PrimByteLen bytes.
from_le_bytes(name, b) ==
    LET n == PrimByteLen(name)
        m == n \div 2 IN
    IF n = 1 THEN FromLimbs(name, <<b[1]>>)
    ELSE FromLimbs(name, [i \in 1..m |-> b[2 * (m - i) + 1] + 256 * b[2 * (m - i) + 2]])

\* <int>::from_be_bytes on an array of exactly PrimByteLen bytes.
from_be_bytes(name, b) ==
    LET n == PrimByteLen(name)
        m == n \div 2 IN
    IF n = 1 THEN FromLimbs(name, <<b[1]>>)
    ELSE FromLimbs(name, [i \in 1..m |-> 256 * b[2 * i - 1] + b[2 * i]])

\* The integer type whose bytes a primitive is written as.
BitsType(name) ==
    CASE name = "f32" -> "u32"
      [] name = "f64" -> "u64"
      [] OTHER        -> name

\* A result of a write: ok is FALSE when the call panicked; bytes is the
\* destination slice as the call left it.
WriteOk(b) == [ok |-> TRUE, bytes |-> b]

WritePanic(b) == [ok |-> FALSE, bytes |-> b]

\* A result of a call that returns a value: ok is FALSE when the call
\* panicked, and value holds the returned value otherwise.
Returned(v) == [ok |-> TRUE, value |-> <<v>>]

Panicked == [ok |-> FALSE, value |-> <<>>]

\* write_bytes_default_le / write_bytes_default_be of a primitive:
\* bytes.copy_from_slice(&self.to_le_bytes()[..]) panics unless the two
\* slices have the same length, before anything is copied.
prim_write_bytes_default(e, name, v, b) ==
    IF Len(b) # PrimByteLen(name) THEN WritePanic(b)
    ELSE IF e = "Little"
         THEN WriteOk(to_le_bytes(BitsType(name), to_bits(name, v)))
         ELSE WriteOk(to_be_bytes(BitsType(name), to_bits(name, v)))

\* read_bytes_default_le / read_bytes_default_be of a primitive: the bytes
\* bytes[0] .. bytes[BYTE_LEN - 1] are indexed one by one, so a short slice
\* panics and a longer one is read from its start.  f64 converts with
\* u64::from_le_bytes under both byte orders.
prim_read_bytes_default(e, name, b) ==
    IF Len(b) < PrimByteLen(name) THEN Panicked
    ELSE LET a == SubSeq(b, 1, PrimByteLen(name)) IN
         IF e = "Little" THEN Returned(from_bits(name, from_le_bytes(BitsType(name), a)))
         ELSE IF name = "f64" THEN Returned(from_bits(name, from_le_bytes("u64", a)))
         ELSE Returned(from_bits(name, from_be_bytes(BitsType(name), a)))

(***************************************************************************)
(* bitfields!: a struct of members of the base type, packed into one base  *)
(* integer.  A declaration is [kind |-> "bitfield", base, widths].         *)
(***************************************************************************)
BaseBits(base) == 8 * PrimByteLen(base)

\* a << s in the base type.  A shift amount of at least the type's width
\* overflows: the call panics when the build checks overflow, and the
\* amount is taken modulo the width when it does not.  Bits shifted out at
\* the top are lost.
shl(base, a, s) ==
    LET bits == BaseBits(base)
        k == s % bits IN
    IF s >= bits /\ overflow_checks THEN [ok |-> FALSE, val |-> 0]
    ELSE [ok |-> TRUE, val |-> (a % Pow2(bits - k)) * Pow2(k)]

\* a >> s in the base type, with the same overflow rule.
shr(base, a, s) ==
    LET bits == BaseBits(base) IN
    IF s >= bits /\ overflow_checks THEN [ok |-> FALSE, val |-> 0]
    ELSE [ok |-> TRUE, val |-> a \div Pow2(s % bits)]

\* The loop of from_raw over the members still to extract:
\*     let mask: $base = (1 << $field_len) - 1;
\*     let $field_name = raw_v & mask;
\*     raw_v >>= $field_len;
RECURSIVE from_raw_loop(_, _, _, _)
from_raw_loop(base, widths, raw_v, acc) ==
    IF widths = <<>> THEN Returned(acc)
    ELSE LET w == Head(widths)
             one == shl(base, 1, w)
             rest == shr(base, raw_v, w) IN
         IF ~one.ok \/ ~rest.ok THEN Panicked
         ELSE from_raw_loop(base, Tail(widths), rest.val,
                            Append(acc, BitAnd(raw_v, one.val - 1)))

from_raw(ty, r) == from_raw_loop(ty.base, ty.widths, r, <<>>)

\* The loop of to_raw over the members still to place:
\*     raw |= self.$field_name << pos;
\*     pos += $field_len;
RECURSIVE to_raw_loop(_, _, _, _, _)
\* Mutant of to_raw_loop: pos is advanced before the member is shifted.
to_raw_loop_AdvanceFirst(base, widths, self, acc, pos) ==
    IF widths = <<>> THEN Returned(acc)
    ELSE LET shifted == shl(base, Head(self), pos + Head(widths)) IN
         IF ~shifted.ok THEN Panicked
         ELSE to_raw_loop(base, Tail(widths), Tail(self),
                          BitOr(acc, shifted.val), pos + Head(widths))

to_raw_loop(base, widths, self, acc, pos) ==
    IF widths = <<>> THEN Returned(acc)
    ELSE LET shifted == shl(base, Head(self), pos) IN
         IF ~shifted.ok THEN Panicked
         ELSE to_raw_loop(base, Tail(widths), Tail(self),
                          BitOr(acc, shifted.val), pos + Head(widths))

to_raw(ty, v) == to_raw_loop(ty.base, ty.widths, v, 0, 0)

(***************************************************************************)
(* Types.  A field of a struct is [ty, attrs], attrs being the sequence of *)
(* the byte order attributes written on it.                                *)
(***************************************************************************)
Prim(name) == [kind |-> "prim", name |-> name]

Arr(elem, n) == [kind |-> "array", elem |-> elem, n |-> n]

Bitfields(base, widths) == [kind |-> "bitfield", base |-> base, widths |-> widths]

Struct(derive, attrs, fields) ==
    [kind |-> "struct", derive |-> derive, attrs |-> attrs, fields |-> fields]

Field(ty, attrs) == [ty |-> ty, attrs |-> attrs]

\* The array lengths byte_struct_array! is instantiated for: bsa5!(1) covers
\* 1 to 32, then 100 and 3000.
ArrayLens == (1..32) \cup {100, 3000}

\* ByteStructLen::BYTE_LEN.
RECURSIVE ByteLen(_)
RECURSIVE FieldsByteLen(_, _)
FieldsByteLen(fields, k) ==
    IF k > Len(fields) THEN 0
    ELSE ByteLen(fields[k].ty) + FieldsByteLen(fields, k + 1)

\* Mutant of ByteLen: an array counted as one element.
ByteLen_ArrayAsElement(ty) ==
    CASE ty.kind = "prim"     -> PrimByteLen(ty.name)
      [] ty.kind = "array"    -> ByteLen(ty.elem)
      [] ty.kind = "bitfield" -> PrimByteLen(ty.base)
      [] ty.kind = "struct"   -> FieldsByteLen(ty.fields, 1)

ByteLen(ty) ==
    CASE ty.kind = "prim"     -> PrimByteLen(ty.name)
      [] ty.kind = "array"    -> ty.n * ByteLen(ty.elem)
      [] ty.kind = "bitfield" -> PrimByteLen(ty.base)
      [] ty.kind = "struct"   -> FieldsByteLen(ty.fields, 1)

(***************************************************************************)
(* The derive macro: byte_struct_macro_derive_impl.                        *)
(***************************************************************************)
\* The entry points and the endianness_input each passes on.
EndiannessInput(derive) ==
    CASE derive = "ByteStruct"   -> "Unspecified"
      [] derive = "ByteStructLE" -> "Little"
      [] derive = "ByteStructBE" -> "Big"

\* The scan of an attribute list for byte_struct_le / byte_struct_be.
FoundLe(attrs) == \E i \in 1..Len(attrs) : attrs[i] = "byte_struct_le"

\* Mutant of FoundBe: only the first attribute is looked at.
FoundBe_FirstOnly(attrs) == attrs # <<>> /\ attrs[1] = "byte_struct_be"

FoundBe(attrs) == \E i \in 1..Len(attrs) : attrs[i] = "byte_struct_be"

\* The struct-level endianness: little when byte_struct_le was found, else
\* big when byte_struct_be was found, else endianness_input.
StructEndianness(ty) ==
    IF FoundLe(ty.attrs) THEN "Little"
    ELSE IF FoundBe(ty.attrs) THEN "Big"
    ELSE EndiannessInput(ty.derive)

\* Mutant of FieldEndianness: the struct's order wins over the field's.
FieldEndianness_StructFirst(endianness, attrs) ==
    IF endianness # "Unspecified" THEN endianness
    ELSE IF FoundBe(attrs) THEN "Big"
    ELSE IF FoundLe(attrs) THEN "Little"
    ELSE endianness

\* What is pushed to field_endianness for one field.
FieldEndianness(endianness, attrs) ==
    IF FoundBe(attrs) THEN "Big"
    ELSE IF FoundLe(attrs) THEN "Little"
    ELSE endianness

\* Mutant of FieldEndiannessList: a field's attribute overwrites the
\* struct-level endianness, so it also applies to the fields after it.
RECURSIVE StickyEndianness(_, _)
StickyEndianness(ty, k) ==
    IF k = 0 THEN StructEndianness(ty)
    ELSE FieldEndianness(StickyEndianness(ty, k - 1), ty.fields[k].attrs)

FieldEndiannessList_Sticky(ty) == [k \in 1..Len(ty.fields) |-> StickyEndianness(ty, k)]

\* field_endianness: one entry per field, in declaration order.
FieldEndiannessList(ty) ==
    [k \in 1..Len(ty.fields) |-> FieldEndianness(StructEndianness(ty), ty.fields[k].attrs)]

\* The names of the functions the generated code calls for an endianness.
WriteBytesFn(e) ==
    CASE e = "Little"      -> "write_bytes_default_le"
      [] e = "Big"         -> "write_bytes_default_be"
      [] e = "Unspecified" -> "write_bytes"

ReadBytesFn(e) ==
    CASE e = "Little"      -> "read_bytes_default_le"
      [] e = "Big"         -> "read_bytes_default_be"
      [] e = "Unspecified" -> "read_bytes"

\* The macro panics on conflicting attributes, on the struct or on a field.
Conflict(ty) ==
    \/ FoundBe(ty.attrs) /\ FoundLe(ty.attrs)
    \/ \E k \in 1..Len(ty.fields) :
          FoundBe(ty.fields[k].attrs) /\ FoundLe(ty.fields[k].attrs)

\* The macro's output: a panic, or the function names bound to each field.
byte_struct_macro_derive_impl(ty) ==
    IF Conflict(ty)
    THEN [status |-> "panic", write_bytes_fn |-> <<>>, read_bytes_fn |-> <<>>]
    ELSE LET fe == FieldEndiannessList(ty) IN
         [status |-> "ok",
          write_bytes_fn |-> [k \in 1..Len(ty.fields) |-> WriteBytesFn(fe[k])],
          read_bytes_fn  |-> [k \in 1..Len(ty.fields) |-> ReadBytesFn(fe[k])]]

\* Whether the compiler accepts a type and the code generated for it:
\* ByteStructUnspecifiedByteOrder is implemented by the primitives, by the
\* arrays of the lengths in ArrayLens and by bitfields (whose base must
\* have the integer shifts from_raw and to_raw use); ByteStruct, which
\* provides the plain write_bytes / read_bytes, only by derived structs.
\* The deprecated derives register no attribute, so the compiler rejects a
\* byte order attribute under them.
RECURSIVE Compiles(_)
\* Mutant of Compiles: the plain write_bytes / read_bytes exist for every type.
Compiles_PlainForAll(ty) ==
    CASE ty.kind = "prim"     -> ty.name \in PrimNames
      [] ty.kind = "array"    -> ty.n \in ArrayLens /\ Compiles(ty.elem)
      [] ty.kind = "bitfield" -> ty.base \in PrimNames /\ ~IsFloat(ty.base)
      [] ty.kind = "struct"   ->
           LET gen == byte_struct_macro_derive_impl(ty) IN
           /\ gen.status = "ok"
           /\ ty.derive # "ByteStruct" =>
                 /\ ty.attrs = <<>>
                 /\ \A k \in 1..Len(ty.fields) : ty.fields[k].attrs = <<>>
           /\ \A k \in 1..Len(ty.fields) : Compiles(ty.fields[k].ty)

Compiles(ty) ==
    CASE ty.kind = "prim"     -> ty.name \in PrimNames
      [] ty.kind = "array"    -> ty.n \in ArrayLens /\ Compiles(ty.elem)
      [] ty.kind = "bitfield" -> ty.base \in PrimNames /\ ~IsFloat(ty.base)
      [] ty.kind = "struct"   ->
           LET gen == byte_struct_macro_derive_impl(ty) IN
           /\ gen.status = "ok"
           /\ ty.derive # "ByteStruct" =>
                 /\ ty.attrs = <<>>
                 /\ \A k \in 1..Len(ty.fields) : ty.fields[k].attrs = <<>>
           /\ \A k \in 1..Len(ty.fields) :
                 /\ Compiles(ty.fields[k].ty)
                 /\ gen.write_bytes_fn[k] = "write_bytes" => ty.fields[k].ty.kind = "struct"

(***************************************************************************)
(* Packing.                                                                *)
(***************************************************************************)
\* The slice bytes[cur .. cur + len], bytes being indexed from 0.
Slice(b, cur, len) == SubSeq(b, cur + 1, cur + len)

\* The buffer after a callee has worked on the slice starting at cur.
Splice(b, cur, sub) ==
    [i \in 1..Len(b) |-> IF cur < i /\ i <= cur + Len(sub) THEN sub[i - cur] ELSE b[i]]

RECURSIVE write_bytes(_, _, _)
RECURSIVE write_bytes_default(_, _, _, _)
RECURSIVE array_write_loop(_, _, _, _, _, _)
RECURSIVE generated_write_fields(_, _, _, _, _, _, _)

\* The generated write_bytes from field k on:
\*     let len = <#ty1>::BYTE_LEN;
\*     self.#ident1.#write_bytes_fn(&mut bytes[cur .. (cur + len)]);
\*     cur += len;
\* Taking the slice panics when it ends past the buffer.  spans records the
\* slice each field was given.
generated_write_fields(ty, fns, v, k, cur, b, spans) ==
    IF k > Len(ty.fields)
    THEN [ok |-> TRUE, bytes |-> b, cur |-> cur, spans |-> spans]
    ELSE LET fty == ty.fields[k].ty
             len == ByteLen(fty) IN
         IF cur + len > Len(b)
         THEN [ok |-> FALSE, bytes |-> b, cur |-> cur, spans |-> spans]
         ELSE LET sub == IF fns[k] = "write_bytes_default_le"
                           THEN write_bytes_default("Little", fty, v[k], Slice(b, cur, len))
                         ELSE IF fns[k] = "write_bytes_default_be"
                           THEN write_bytes_default("Big", fty, v[k], Slice(b, cur, len))
                         ELSE write_bytes(fty, v[k], Slice(b, cur, len))
                  b2 == Splice(b, cur, sub.bytes) IN
              IF ~sub.ok
              THEN [ok |-> FALSE, bytes |-> b2, cur |-> cur, spans |-> spans]
              ELSE generated_write_fields(ty, fns, v, k + 1, cur + len, b2,
                                          Append(spans, <<cur, cur + len>>))

\* ByteStruct::write_bytes as generated for a struct, gen being the macro's
\* output for it.
generated_write_bytes(ty, gen, v, b) ==
    generated_write_fields(ty, gen.write_bytes_fn, v, 1, 0, b, <<>>)

\* ByteStruct::write_bytes of a derived struct.
write_bytes(ty, v, b) ==
    generated_write_bytes(ty, byte_struct_macro_derive_impl(ty), v, b)

\* Mutant of array_write_loop: pos is not advanced.
array_write_loop_NoAdvance(e, ty, v, i, pos, b) ==
    IF i > ty.n THEN WriteOk(b)
    ELSE LET len == ByteLen(ty.elem) IN
         IF pos + len > Len(b) THEN WritePanic(b)
         ELSE LET sub == write_bytes_default(e, ty.elem, v[i], Slice(b, pos, len))
                  b2 == Splice(b, pos, sub.bytes) IN
              IF ~sub.ok THEN WritePanic(b2)
              ELSE array_write_loop(e, ty, v, i + 1, pos, b2)

\* The loop of the array's write_bytes_default_le / _be from element i on:
\*     self[i].write_bytes_default_le(&mut bytes[pos .. pos + len]);
\*     pos += len;
array_write_loop(e, ty, v, i, pos, b) ==
    IF i > ty.n THEN WriteOk(b)
    ELSE LET len == ByteLen(ty.elem) IN
         IF pos + len > Len(b) THEN WritePanic(b)
         ELSE LET sub == write_bytes_default(e, ty.elem, v[i], Slice(b, pos, len))
                  b2 == Splice(b, pos, sub.bytes) IN
              IF ~sub.ok THEN WritePanic(b2)
              ELSE array_write_loop(e, ty, v, i + 1, pos + len, b2)

\* to_raw, then the base type's write under the same default byte order.
bitfield_write_bytes_default(e, ty, v, b) ==
    LET r == to_raw(ty, v) IN
    IF ~r.ok THEN WritePanic(b)
    ELSE prim_write_bytes_default(e, ty.base, r.value[1], b)

\* Mutant of write_bytes_default: a struct takes the default byte order it
\* is given as its own struct-level order.
write_bytes_default_Inherit(e, ty, v, b) ==
    CASE ty.kind = "struct"   ->
           write_bytes([ty EXCEPT !.attrs = IF e = "Little" THEN <<"byte_struct_le">>
                                            ELSE <<"byte_struct_be">>], v, b)
      [] ty.kind = "prim"     -> prim_write_bytes_default(e, ty.name, v, b)
      [] ty.kind = "array"    -> array_write_loop(e, ty, v, 1, 0, b)
      [] ty.kind = "bitfield" -> bitfield_write_bytes_default(e, ty, v, b)

\* ByteStructUnspecifiedByteOrder::write_bytes_default_le (e = "Little") and
\* write_bytes_default_be (e = "Big") of any type.  For a type that
\* implements ByteStruct both are self.write_bytes(bytes), which is also what
\* the generated code calls directly for a field of unspecified endianness.
write_bytes_default(e, ty, v, b) ==
    CASE ty.kind = "struct"   -> write_bytes(ty, v, b)
      [] ty.kind = "prim"     -> prim_write_bytes_default(e, ty.name, v, b)
      [] ty.kind = "array"    -> array_write_loop(e, ty, v, 1, 0, b)
      [] ty.kind = "bitfield" -> bitfield_write_bytes_default(e, ty, v, b)

(***************************************************************************)
(* Unpacking.                                                              *)
(***************************************************************************)
RECURSIVE read_bytes(_, _)
RECURSIVE read_bytes_default(_, _, _)
RECURSIVE array_read_loop(_, _, _, _, _, _)
RECURSIVE generated_read_fields(_, _, _, _, _, _)

\* The generated read_bytes from field k on:
\*     let len = <#ty2>::BYTE_LEN;
\*     let #ident2 = <#ty3>::#read_bytes_fn(&bytes[cur .. (cur + len)]);
\*     cur += len;
\* The result also carries the cursor the walk ended at.
generated_read_fields(ty, fns, k, cur, b, acc) ==
    IF k > Len(ty.fields) THEN [ok |-> TRUE, value |-> <<acc>>, cur |-> cur]
    ELSE LET fty == ty.fields[k].ty
             len == ByteLen(fty) IN
         IF cur + len > Len(b) THEN [ok |-> FALSE, value |-> <<>>, cur |-> cur]
         ELSE LET sub == IF fns[k] = "read_bytes_default_le"
                           THEN read_bytes_default("Little", fty, Slice(b, cur, len))
                         ELSE IF fns[k] = "read_bytes_default_be"
                           THEN read_bytes_default("Big", fty, Slice(b, cur, len))
                         ELSE read_bytes(fty, Slice(b, cur, len)) IN
              IF ~sub.ok THEN [ok |-> FALSE, value |-> <<>>, cur |-> cur]
              ELSE generated_read_fields(ty, fns, k + 1, cur + len, b,
                                         Append(acc, sub.value[1]))

\* ByteStruct::read_bytes as generated for a struct.
generated_read_bytes(ty, gen, b) ==
    generated_read_fields(ty, gen.read_bytes_fn, 1, 0, b, <<>>)

\* ByteStruct::read_bytes of a derived struct.
read_bytes(ty, b) == generated_read_bytes(ty, byte_struct_macro_derive_impl(ty), b)

\* The loop of the array's read_bytes_default_le / _be from element i on.
array_read_loop(e, ty, i, pos, b, acc) ==
    IF i > ty.n THEN Returned(acc)
    ELSE LET len == ByteLen(ty.elem) IN
         IF pos + len > Len(b) THEN Panicked
         ELSE LET sub == read_bytes_default(e, ty.elem, Slice(b, pos, len)) IN
              IF ~sub.ok THEN Panicked
              ELSE array_read_loop(e, ty, i + 1, pos + len, b, Append(acc, sub.value[1]))

\* The base type's read under the default byte order, then from_raw.
bitfield_read_bytes_default(e, ty, b) ==
    LET r == prim_read_bytes_default(e, ty.base, b) IN
    IF ~r.ok THEN Panicked ELSE from_raw(ty, r.value[1])

\* ByteStructUnspecifiedByteOrder::read_bytes_default_le / _be of any type.
read_bytes_default(e, ty, b) ==
    CASE ty.kind = "struct"   -> read_bytes(ty, b)
      [] ty.kind = "prim"     -> prim_read_bytes_default(e, ty.name, b)
      [] ty.kind = "array"    -> array_read_loop(e, ty, 1, 0, b, <<>>)
      [] ty.kind = "bitfield" -> bitfield_read_bytes_default(e, ty, b)

(***************************************************************************)
(* The declarations, values and bytes of the repository's tests and        *)
(* examples.                                                               *)
(***************************************************************************)
LE == <<"byte_struct_le">>

BE == <<"byte_struct_be">>

NoAttr == <<>>

\* tests/src/main.rs: bitfields!(TestBitfield: u16 { x: 4, pub y: 8, z: 4 }).
TestBitfield == Bitfields("u16", <<4, 8, 4>>)

TestSubStruct1 ==
    Struct("ByteStruct", BE,
           <<Field(Prim("u16"), NoAttr), Field(Arr(TestBitfield, 2), NoAttr)>>)

TestSubStruct2 ==
    Struct("ByteStruct", NoAttr,
           <<Field(Prim("u32"), LE), Field(Prim("u16"), BE)>>)

TestSubStruct3 ==
    Struct("ByteStruct", NoAttr,
           <<Field(TestSubStruct1, NoAttr), Field(TestSubStruct2, NoAttr)>>)

\* The field d is a GenericArray<u16, U3> in the test; it is modelled as the
\* array [u16; 3] of byte_struct_array!.
TestStruct ==
    Struct("ByteStruct", LE,
           <<Field(Prim("u8"), NoAttr),
             Field(TestSubStruct3, NoAttr),
             Field(Arr(Prim("u16"), 3), NoAttr),
             Field(Prim("u32"), NoAttr),
             Field(Prim("u64"), NoAttr),
             Field(Prim("u128"), BE),
             Field(Prim("f32"), NoAttr),
             Field(Prim("f64"), NoAttr)>>)

\* The value the test writes (h: 1.2345 and i: 3.14159 by their bits).
TestWriteValue ==
    << \h12,
       << << \h3456, << <<\hf, \h8f, \h7>>, <<\h1, \h23, \h4>> >> >>,
          << <<\h9080, \h7060>>, \h5040 >> >>,
       <<\h1020, \h3040, \h5060>>,
       <<\h9abc, \hdef0>>,
       <<\h0123, \h4567, \h89ab, \hcdef>>,
       <<\hffee, \hddcc, \hbbaa, \h9988, \h7766, \h5544, \h3322, \h1100>>,
       [bits |-> <<\h3f9e, \h0419>>],
       [bits |-> <<\h4009, \h21f9, \hf01b, \h866e>>] >>

\* The bytes the test expects write_bytes to produce.
TestWriteBytes ==
    << \h12,
       \h34, \h56,
       \h78, \hff,
       \h42, \h31,
       \h60, \h70, \h80, \h90,
       \h50, \h40,
       \h20, \h10, \h40, \h30, \h60, \h50,
       \hf0, \hde, \hbc, \h9a,
       \hef, \hcd, \hab, \h89, \h67, \h45, \h23, \h01,
       \hff, \hee, \hdd, \hcc, \hbb, \haa, \h99, \h88,
       \h77, \h66, \h55, \h44, \h33, \h22, \h11, \h00,
       \h19, \h04, \h9e, \h3f,
       \h6e, \h86, \h1b, \hf0, \hf9, \h21, \h09, \h40 >>

\* The bytes the test reads.
TestReadBytes ==
    << \h00,
       \h11, \h22,
       \h33, \h44,
       \h17, \h28,
       \h76, \h54, \h32, \h10,
       \hfe, \hdc,
       \h44, \h55, \h66, \h77, \h88, \h99,
       \haa, \hbb, \hcc, \hdd,
       \h10, \h20, \h30, \h40, \h51, \h61, \h71, \h81,
       \h11, \h12, \h13, \h14, \h25, \h26, \h27, \h28,
       \h31, \h32, \h33, \h34, \h45, \h46, \h47, \h48,
       \hcd, \hcc, \hf6, \h42,
       \h58, \h39, \hb4, \hc8, \h76, \hbe, \h05, \h40 >>

\* The value the test expects read_bytes to return (h: 123.4, i: 2.718).
TestReadValue ==
    << \h00,
       << << \h1122, << <<\h4, \h34, \h3>>, <<\h8, \h72, \h1>> >> >>,
          << <<\h1032, \h5476>>, \hfedc >> >>,
       <<\h5544, \h7766, \h9988>>,
       <<\hddcc, \hbbaa>>,
       <<\h8171, \h6151, \h4030, \h2010>>,
       <<\h1112, \h1314, \h2526, \h2728, \h3132, \h3334, \h4546, \h4748>>,
       [bits |-> <<\h42f6, \hcccd>>],
       [bits |-> <<\h4005, \hbe76, \hc8b4, \h3958>>] >>

\* tests/test_no_std/src/main.rs.
Dummy ==
    Struct("ByteStruct", BE, <<Field(Prim("u64"), NoAttr), Field(Prim("u16"), NoAttr)>>)

DummyValue == << <<0, 0, 0, 3>>, 8 >>

\* The example of byte_struct/src/lib.rs.
GIFColorTableInfo == Bitfields("u8", <<1, 3, 1, 3>>)

GIFLogicalScreenDescriptor ==
    Struct("ByteStructLE", NoAttr,
           <<Field(Prim("u16"), NoAttr), Field(Prim("u16"), NoAttr),
             Field(GIFColorTableInfo, NoAttr),
             Field(Prim("u8"), NoAttr), Field(Prim("u8"), NoAttr)>>)

GIFValue == <<3, 5, <<1, 3, 1, 7>>, 0, 0>>

GIFBytes == <<\h03, \h00, \h05, \h00, \hf7, \h00, \h00>>

\* The examples of the derive macro's documentation.
Struct1 ==
    Struct("ByteStruct", LE,
           <<Field(Prim("u32"), NoAttr), Field(Prim("i16"), LE), Field(Prim("u16"), BE)>>)

Struct2 ==
    Struct("ByteStruct", NoAttr, <<Field(Prim("u64"), BE), Field(Prim("f32"), LE)>>)

Struct3 ==
    Struct("ByteStruct", NoAttr, <<Field(Struct1, NoAttr), Field(Struct2, LE)>>)

\* A struct of the shape of the test's TestStruct cut down to four fields:
\* little-endian by default, one field overridden to big-endian.
Layout13 ==
    Struct("ByteStruct", LE,
           <<Field(Prim("u8"), NoAttr), Field(Prim("u16"), BE),
             Field(Arr(Prim("u16"), 3), NoAttr), Field(Prim("u32"), NoAttr)>>)

Layout13Value == <<\h12, \h3456, <<\h1020, \h3040, \h5060>>, <<\h9abc, \hdef0>> >>

\* A bitfield of a single member as wide as its base type, in a struct.
Whole8 == Bitfields("u8", <<8>>)

Whole8Struct == Struct("ByteStruct", BE, <<Field(Prim("u8"), NoAttr), Field(Whole8, NoAttr)>>)

\* Declarations with both attributes on the struct or on a field.
ConflictOnStruct ==
    Struct("ByteStruct", <<"byte_struct_be", "byte_struct_le">>, <<Field(Prim("u16"), NoAttr)>>)

ConflictOnField ==
    Struct("ByteStruct", LE,
           <<Field(Prim("u8"), NoAttr),
             Field(Prim("u16"), <<"byte_struct_le", "byte_struct_be">>)>>)

ConflictOnStructLeBe ==
    Struct("ByteStruct", <<"byte_struct_le", "byte_struct_be">>, <<Field(Prim("u16"), NoAttr)>>)

ConflictOnFieldBeLe ==
    Struct("ByteStruct", NoAttr,
           <<Field(Prim("u16"), <<"byte_struct_be", "byte_struct_le">>),
             Field(TestSubStruct2, NoAttr)>>)

\* Declarations without a struct-level order whose one field carries no
\* attribute: a bitfield, an array of primitives, an array of structs.
UnresolvedBitfield == Struct("ByteStruct", NoAttr, <<Field(TestBitfield, NoAttr)>>)

UnresolvedArray == Struct("ByteStruct", NoAttr, <<Field(Arr(Prim("u16"), 3), NoAttr)>>)

UnresolvedStructArray == Struct("ByteStruct", NoAttr, <<Field(Arr(TestSubStruct2, 2), NoAttr)>>)

(***************************************************************************)
(* The declarations and values explored.                                   *)
(***************************************************************************)
\* The longest field list of a generated declaration.
MaxFields == 2

SampleIds == {1, 2}

Pick(samples, k) == samples[((k - 1) % Len(samples)) + 1]

PrimSample(name, k) ==
    CASE name = "u8"   -> Pick(<<\h12, \h00, \hf7>>, k)
      [] name = "i8"   -> Pick(<<-2, \h12, -128>>, k)
      [] name = "u16"  -> Pick(<<\h3456, \h1122, \h5040, \hfedc>>, k)
      [] name = "i16"  -> Pick(<<-2, \h1234, -32768>>, k)
      [] name = "u32"  -> Pick(<< <<\h9abc, \hdef0>>, <<\hddcc, \hbbaa>>,
                                 <<\h9080, \h7060>>, <<\h1032, \h5476>> >>, k)
      [] name = "u64"  -> Pick(<< <<\h0123, \h4567, \h89ab, \hcdef>>,
                                 <<\h8171, \h6151, \h4030, \h2010>> >>, k)
      [] name = "u128" -> Pick(<< <<\hffee, \hddcc, \hbbaa, \h9988,
                                   \h7766, \h5544, \h3322, \h1100>>,
                                 <<\h1112, \h1314, \h2526, \h2728,
                                   \h3132, \h3334, \h4546, \h4748>> >>, k)
      [] name = "f32"  -> Pick(<< [bits |-> <<\h3f9e, \h0419>>],
                                 [bits |-> <<\h42f6, \hcccd>>] >>, k)
      [] name = "f64"  -> Pick(<< [bits |-> <<\h4009, \h21f9, \hf01b, \h866e>>],
                                 [bits |-> <<\h4005, \hbe76, \hc8b4, \h3958>>] >>, k)

\* Member values that fit their widths, after the test's TestBitfield values.
MemberSample(w, j, k) ==
    Pick(<< <<\hf, \h8f, \h7, \h5>>, <<\h1, \h23, \h4, \h6>> >>, k)[((j - 1) % 4) + 1] % Pow2(w)

RECURSIVE SampleValue(_, _)
SampleValue(ty, k) ==
    CASE ty.kind = "prim"     -> PrimSample(ty.name, k)
      [] ty.kind = "array"    -> [i \in 1..ty.n |-> SampleValue(ty.elem, k + i - 1)]
      [] ty.kind = "bitfield" -> [j \in 1..Len(ty.widths) |-> MemberSample(ty.widths[j], j, k)]
      [] ty.kind = "struct"   -> [j \in 1..Len(ty.fields) |-> SampleValue(ty.fields[j].ty, k + j - 1)]

GenAttrs == {NoAttr, LE, BE}

\* The fields generated declarations are built from: a primitive and a
\* struct under every attribute, and one field of each other kind.
GenFields ==
    {Field(Prim("u16"), a) : a \in GenAttrs}
    \cup {Field(TestSubStruct2, a) : a \in GenAttrs}
    \cup {Field(Prim("u8"), NoAttr), Field(Prim("f64"), NoAttr),
          Field(TestBitfield, BE), Field(Arr(Prim("u16"), 3), LE)}

GenSchemas ==
    {Struct("ByteStruct", sa, fs) :
        sa \in GenAttrs, fs \in UNION {[1..n -> GenFields] : n \in 1..MaxFields}}

NamedSchemas ==
    {TestStruct, TestSubStruct1, TestSubStruct2, TestSubStruct3, Dummy,
     GIFLogicalScreenDescriptor, Struct1, Struct2, Struct3, Layout13,
     Whole8Struct, ConflictOnStruct, ConflictOnField,
     ConflictOnStructLeBe, ConflictOnFieldBeLe,
     UnresolvedBitfield, UnresolvedArray, UnresolvedStructArray}

Schemas == GenSchemas \cup NamedSchemas

SchemaValues(ty) ==
    {SampleValue(ty, k) : k \in SampleIds}
    \cup (IF ty = TestStruct THEN {TestWriteValue, TestReadValue} ELSE {})
    \cup (IF ty = Dummy THEN {DummyValue} ELSE {})
    \cup (IF ty = GIFLogicalScreenDescriptor THEN {GIFValue} ELSE {})
    \cup (IF ty = Layout13 THEN {Layout13Value} ELSE {})

\* A zeroed buffer, as the tests allocate it: [0; N].
Zeroed(n) == [i \in 1..n |-> 0]

\* Input bytes for read_bytes: the test's input, repeated.
InputBytes(n) == [i \in 1..n |-> TestReadBytes[((i - 1) % Len(TestReadBytes)) + 1]]

\* The buffer lengths a caller tries: exact, one short, one long, and half.
BufLens(ty) ==
    {n \in {ByteLen(ty) - 1, ByteLen(ty), ByteLen(ty) + 1, ByteLen(ty) \div 2} : n >= 0}

NoImpl == [status |-> "none", write_bytes_fn |-> <<>>, read_bytes_fn |-> <<>>]

NoWrite == [ok |-> FALSE, bytes |-> <<>>, cur |-> 0, spans |-> <<>>]

NoRead == [ok |-> FALSE, value |-> <<>>, cur |-> 0]

NoBitfield == Bitfields("u8", <<>>)

(***************************************************************************)
(* The caller of a derived struct: declare, derive, then pack and unpack.  *)
(***************************************************************************)
Init ==
    /\ overflow_checks \in BOOLEAN
    /\ pc = "declared"
    /\ schema \in Schemas
    /\ value \in SchemaValues(schema)
    /\ impl = NoImpl
    /\ bytes = <<>>
    /\ before = <<>>
    /\ wr = NoWrite
    /\ rd = NoRead
    /\ decl = NoBitfield
    /\ raw = 0
    /\ members = <<>>
    /\ order = "Unspecified"
    /\ bf = Panicked
    /\ packed = Panicked

BitVarsUnchanged == UNCHANGED <<decl, raw, members, order, bf, packed>>

\* #[derive(ByteStruct)] on the declaration, and the compilation of what it
\* generates.
Derive ==
    /\ pc = "declared"
    /\ LET gen == byte_struct_macro_derive_impl(schema) IN
       IF gen.status = "panic"
       THEN impl' = gen /\ pc' = "rejected"
       ELSE IF ~Compiles(schema)
       THEN impl' = [gen EXCEPT !.status = "compile_error"] /\ pc' = "rejected"
       ELSE impl' = gen /\ pc' = "derived"
    /\ UNCHANGED <<overflow_checks, schema, value, bytes, before, wr, rd>>
    /\ BitVarsUnchanged

\* value.write_bytes(&mut buffer) on a zeroed buffer of some length.
WriteBytes ==
    /\ pc = "derived"
    /\ \E n \in BufLens(schema) :
         /\ before' = Zeroed(n)
         /\ wr' = generated_write_bytes(schema, impl, value, Zeroed(n))
    /\ bytes' = wr'.bytes
    /\ pc' = "written"
    /\ UNCHANGED <<overflow_checks, schema, value, impl, rd>>
    /\ BitVarsUnchanged

\* read_bytes on the buffer a write_bytes call has filled.
ReadBack ==
    /\ pc = "written"
    /\ wr.ok
    /\ rd' = generated_read_bytes(schema, impl, bytes)
    /\ pc' = "read_back"
    /\ UNCHANGED <<overflow_checks, schema, value, impl, bytes, before, wr>>
    /\ BitVarsUnchanged

\* read_bytes on input bytes of some length.
ReadInput ==
    /\ pc = "derived"
    /\ \E n \in BufLens(schema) : bytes' = InputBytes(n)
    /\ rd' = generated_read_bytes(schema, impl, bytes')
    /\ pc' = "read_input"
    /\ UNCHANGED <<overflow_checks, schema, value, impl, before, wr>>
    /\ BitVarsUnchanged

Next == Derive \/ WriteBytes \/ ReadBack \/ ReadInput

Spec == Init /\ [][Next]_vars

(***************************************************************************)
(* The user of a bitfields! type: from_raw and to_raw on their own, and    *)
(* the type packed to and unpacked from bytes.                             *)
(***************************************************************************)
\* The u8 declarations of at most three members whose widths sum to 8.
Splits8 ==
    {<<8>>}
    \cup {<<a, 8 - a>> : a \in 1..7}
    \cup {w \in {<<a, b, c>> : a \in 1..6, b \in 1..6, c \in 1..6} : SumSeq(w) = 8}

\* The declarations explored: the u8 splits, those of the tests and the
\* documentation, a u16 of one member, and some whose widths do not sum to
\* the width of the base type.
BitDecls ==
    {Bitfields("u8", w) : w \in Splits8}
    \cup {GIFColorTableInfo, TestBitfield,
          Bitfields("u16", <<4, 8, 1, 3>>), Bitfields("u16", <<16>>),
          Bitfields("u8", <<4, 3>>), Bitfields("u8", <<4, 5>>), Bitfields("u8", <<8, 1>>)}

ByteSamples == {\h00, \h01, \h0f, \h2f, \h33, \h44, \h78, \h7f, \h80, \h8f, \hf0, \hff}

\* The base integers handed to from_raw: every u8, and the u16 values made
\* of two sample bytes.
RawInputs(base) ==
    IF base = "u8" THEN 0..255
    ELSE {hi * 256 + lo : hi \in ByteSamples, lo \in ByteSamples}

\* The values a member of width w is given: values that fit the width and,
\* when the width is narrower than the base type, values that do not.
MemberChoices(base, w) ==
    {0, 1, Pow2(w) - 1, \h8f % Pow2(w), \h7 % Pow2(w)}
    \cup (IF w < BaseBits(base) THEN {Pow2(w), Pow2(BaseBits(base)) - 1} ELSE {})

RECURSIVE MemberInputsFrom(_, _, _)
MemberInputsFrom(base, widths, j) ==
    IF j > Len(widths) THEN {<<>>}
    ELSE {<<m>> \o rest : m \in MemberChoices(base, widths[j]),
                          rest \in MemberInputsFrom(base, widths, j + 1)}

MemberInputs(ty) == MemberInputsFrom(ty.base, ty.widths, 1)

\* The bytes of a buffer holding the base integer r, low byte first.
RawAsInput(base, r) == IF base = "u8" THEN <<r>> ELSE <<r % 256, r \div 256>>

ByteOrders == {"Little", "Big"}

InitBits ==
    /\ overflow_checks \in BOOLEAN
    /\ decl \in BitDecls
    /\ \/ pc = "have_raw" /\ raw \in RawInputs(decl.base) /\ members = <<>>
       \/ pc = "have_members" /\ raw = 0 /\ members \in MemberInputs(decl)
    /\ order = "Unspecified"
    /\ bf = Panicked
    /\ packed = Panicked
    /\ schema = Struct("ByteStruct", NoAttr, <<>>)
    /\ value = <<>>
    /\ impl = NoImpl
    /\ bytes = <<>>
    /\ before = <<>>
    /\ wr = NoWrite
    /\ rd = NoRead

StructVarsUnchanged == UNCHANGED <<overflow_checks, schema, value, impl>>

\* from_raw on an input integer.
Unpack ==
    /\ pc = "have_raw"
    /\ bf' = from_raw(decl, raw)
    /\ pc' = "unpacked"
    /\ UNCHANGED <<decl, raw, members, order, packed, bytes, before, wr, rd>>
    /\ StructVarsUnchanged

\* to_raw on what from_raw returned.
Repack ==
    /\ pc = "unpacked"
    /\ bf.ok
    /\ members' = bf.value[1]
    /\ packed' = to_raw(decl, members')
    /\ pc' = "repacked"
    /\ UNCHANGED <<decl, raw, order, bf, bytes, before, wr, rd>>
    /\ StructVarsUnchanged

\* to_raw on input members.
Pack ==
    /\ pc = "have_members"
    /\ packed' = to_raw(decl, members)
    /\ pc' = "packed"
    /\ UNCHANGED <<decl, raw, members, order, bf, bytes, before, wr, rd>>
    /\ StructVarsUnchanged

\* from_raw on what to_raw returned.
Reunpack ==
    /\ pc = "packed"
    /\ packed.ok
    /\ raw' = packed.value[1]
    /\ bf' = from_raw(decl, raw')
    /\ pc' = "reunpacked"
    /\ UNCHANGED <<decl, members, order, packed, bytes, before, wr, rd>>
    /\ StructVarsUnchanged

\* write_bytes_default_le / _be of the bitfield on a zeroed buffer.
PackBytes ==
    /\ pc = "have_members"
    /\ order' \in ByteOrders
    /\ before' = Zeroed(ByteLen(decl))
    /\ wr' = bitfield_write_bytes_default(order', decl, members, before')
    /\ bytes' = wr'.bytes
    /\ pc' = "packed_bytes"
    /\ UNCHANGED <<decl, raw, members, bf, packed, rd>>
    /\ StructVarsUnchanged

\* read_bytes_default_le / _be of the bitfield on input bytes.
UnpackBytes ==
    /\ pc = "have_raw"
    /\ order' \in ByteOrders
    /\ bytes' = RawAsInput(decl.base, raw)
    /\ rd' = bitfield_read_bytes_default(order', decl, bytes')
    /\ pc' = "unpacked_bytes"
    /\ UNCHANGED <<decl, raw, members, bf, packed, before, wr>>
    /\ StructVarsUnchanged

NextBits == Unpack \/ Repack \/ Pack \/ Reunpack \/ PackBytes \/ UnpackBytes

SpecBits == InitBits /\ [][NextBits]_vars

(***************************************************************************)
(* Properties of the derived struct codec.                                 *)
(***************************************************************************)
\* A write_bytes call has been made.
Written == pc \in {"written", "read_back"}

\* The buffer of the last write_bytes call had exactly BYTE_LEN bytes.
ExactBuffer == Len(before) = ByteLen(schema)

\* The bytes of a buffer in the span <<lo, hi>>, offsets counted from 0.
Seg(b, span) == SubSeq(b, span[1] + 1, span[2])

\* The declaration with the attributes of field k replaced.
WithFieldAttrs(ty, k, a) == [ty EXCEPT !.fields[k].attrs = a]

\* The offset of field k: the lengths of the fields declared before it.
RECURSIVE Offset(_, _)
Offset(ty, k) == IF k = 1 THEN 0 ELSE Offset(ty, k - 1) + ByteLen(ty.fields[k - 1].ty)

\* C1: round trip.  read_bytes applied to the BYTE_LEN bytes that
\* write_bytes(v) produced returns a value equal to v.
C1_RoundTrip ==
    (pc = "read_back" /\ ExactBuffer) => (rd.ok /\ rd.value[1] = value)

\* The types a declaration is built from, nested ones included.
RECURSIVE TypesIn(_)
TypesIn(ty) ==
    {ty} \cup
    CASE ty.kind = "array"  -> TypesIn(ty.elem)
      [] ty.kind = "struct" -> UNION {TypesIn(ty.fields[k].ty) : k \in 1..Len(ty.fields)}
      [] OTHER              -> {}

\* A field of type f64, directly or as an array element, that the
\* declaration reads as big-endian.
RECURSIVE HasBigF64(_, _)
HasBigF64(e, ty) ==
    CASE ty.kind = "prim"   -> ty.name = "f64" /\ e = "Big"
      [] ty.kind = "array"  -> HasBigF64(e, ty.elem)
      [] ty.kind = "struct" ->
           \E k \in 1..Len(ty.fields) : HasBigF64(FieldEndiannessList(ty)[k], ty.fields[k].ty)
      [] OTHER              -> FALSE

\* A bitfield with a member as wide as its base type.
HasWholeWidthMember(ty) ==
    \E t \in TypesIn(ty) :
        t.kind = "bitfield" /\ \E j \in 1..Len(t.widths) : t.widths[j] >= BaseBits(t.base)

\* The round trip holds for every declaration with neither of the two.
RoundTripElsewhere ==
    (pc = "read_back" /\ ExactBuffer
        /\ ~HasBigF64("Unspecified", schema) /\ ~HasWholeWidthMember(schema))
    => (rd.ok /\ rd.value[1] = value)

\* The lengths C2 states, by kind.
RECURSIVE StatedLen(_)
StatedLen(ty) ==
    CASE ty.kind = "prim" ->
           (CASE ty.name \in {"u8", "i8"}          -> 1
              [] ty.name \in {"u16", "i16"}        -> 2
              [] ty.name \in {"u32", "i32", "f32"} -> 4
              [] ty.name \in {"u64", "i64", "f64"} -> 8
              [] ty.name \in {"u128", "i128"}      -> 16)
      [] ty.kind = "array"    -> ty.n * StatedLen(ty.elem)
      [] ty.kind = "bitfield" -> StatedLen(Prim(ty.base))
      [] ty.kind = "struct"   ->
           SumSeq([k \in 1..Len(ty.fields) |-> StatedLen(ty.fields[k].ty)])

\* C2: length invariant.  BYTE_LEN is the sum of the fields' lengths,
\* computed recursively by kind; write_bytes gives the fields, in
\* declaration order, the consecutive spans that start at 0 and end at
\* BYTE_LEN; every byte of [0, BYTE_LEN) is written and no byte after it;
\* read_bytes ends its walk at BYTE_LEN too.
C2_LengthInvariant ==
    /\ (pc = "written" /\ Len(before) >= ByteLen(schema)) =>
          LET n == Len(schema.fields)
              onOnes == generated_write_bytes(schema, impl, value,
                                              [i \in 1..Len(before) |-> 255]) IN
          /\ ByteLen(schema) = StatedLen(schema)
          /\ wr.ok
          /\ wr.cur = ByteLen(schema)
          /\ Len(wr.spans) = n
          /\ \A k \in 1..n :
                /\ wr.spans[k][1] = (IF k = 1 THEN 0 ELSE wr.spans[k - 1][2])
                /\ wr.spans[k][2] = wr.spans[k][1] + StatedLen(schema.fields[k].ty)
          /\ n > 0 => wr.spans[n][2] = ByteLen(schema)
          /\ \A i \in 1..Len(bytes) :
                IF i <= ByteLen(schema)
                THEN onOnes.bytes[i] = bytes[i]
                ELSE bytes[i] = 0 /\ onOnes.bytes[i] = 255
    /\ (pc \in {"read_back", "read_input"} /\ rd.ok) => rd.cur = ByteLen(schema)
    /\ (schema = TestStruct => ByteLen(schema) = 59)
    /\ (schema = GIFLogicalScreenDescriptor => ByteLen(schema) = 7)

C2_Witness ==
    /\ pc = "written" /\ ExactBuffer /\ wr.ok
    /\ schema = TestStruct /\ wr.cur = 59 /\ Len(wr.spans) = 8

\* The byte order C3 states for a field: its own attribute when it has
\* one, else the order declared on the struct.
StatedOrder(ty, k) ==
    LET a == ty.fields[k].attrs IN
    IF a = LE THEN "Little"
    ELSE IF a = BE THEN "Big"
    ELSE IF ty.attrs = LE \/ ty.derive = "ByteStructLE" THEN "Little"
    ELSE IF ty.attrs = BE \/ ty.derive = "ByteStructBE" THEN "Big"
    ELSE "Unspecified"

\* C3: byte order precedence.  A field whose type is not a struct is
\* packed and unpacked under its own attribute when it has one, and under
\* the struct's order otherwise.
C3_OrderPrecedence ==
    /\ (pc = "written" /\ wr.ok) =>
          \A k \in 1..Len(schema.fields) :
              LET fty == schema.fields[k].ty IN
              fty.kind # "struct" =>
                  /\ StatedOrder(schema, k) \in ByteOrders
                  /\ Seg(bytes, wr.spans[k])
                       = write_bytes_default(StatedOrder(schema, k), fty, value[k],
                                             Zeroed(ByteLen(fty))).bytes
    /\ (pc = "read_input" /\ rd.ok) =>
          \A k \in 1..Len(schema.fields) :
              LET fty == schema.fields[k].ty IN
              fty.kind # "struct" =>
                  rd.value[1][k]
                    = read_bytes_default(StatedOrder(schema, k), fty,
                                         Slice(bytes, Offset(schema, k), ByteLen(fty))).value[1]

\* A u16 field whose attribute differs from the struct's order, written.
C3_Witness ==
    /\ pc = "written" /\ wr.ok /\ ExactBuffer
    /\ schema.attrs = LE
    /\ Len(schema.fields) = 2
    /\ schema.fields[1] = Field(Prim("u16"), BE)
    /\ schema.fields[2] = Field(Prim("u16"), NoAttr)
    /\ value = <<\h3456, \h1122>>
    /\ bytes = <<\h34, \h56, \h22, \h11>>

\* C4: self-describing immunity.  For a derived struct the three write
\* functions produce the same bytes and the three read functions the same
\* value; a field of struct type gets the same bytes whatever attribute it
\* carries and whatever the order of the struct around it.
C4_SelfDescribing ==
    /\ pc = "written" =>
          /\ \A e \in ByteOrders :
                LET w == write_bytes_default(e, schema, value, before) IN
                w.ok = wr.ok /\ w.bytes = bytes
          /\ wr.ok =>
                \A k \in 1..Len(schema.fields) :
                    schema.fields[k].ty.kind = "struct" =>
                        \A a \in GenAttrs, sa \in GenAttrs :
                            LET other == [WithFieldAttrs(schema, k, a) EXCEPT !.attrs = sa] IN
                            Compiles(other) =>
                                Seg(write_bytes(other, value, before).bytes, wr.spans[k])
                                  = Seg(bytes, wr.spans[k])
    /\ pc \in {"read_back", "read_input"} =>
          \A e \in ByteOrders :
              LET r == read_bytes_default(e, schema, bytes) IN
              r.ok = rd.ok /\ r.value = rd.value

\* A struct field carrying a big-endian attribute inside a little-endian
\* struct, written with its own orders.
C4_Witness ==
    /\ pc = "written" /\ wr.ok /\ ExactBuffer
    /\ schema.attrs = LE
    /\ Len(schema.fields) = 2
    /\ schema.fields[1] = Field(TestSubStruct2, BE)
    /\ schema.fields[2] = Field(Prim("u16"), NoAttr)
    /\ value[1] = << <<\h9abc, \hdef0>>, \h1122 >>
    /\ Seg(bytes, <<0, 6>>) = <<\hf0, \hde, \hbc, \h9a, \h11, \h22>>

\* C5: the layout of 13 bytes.  The little-endian struct of u8, big-endian
\* u16, [u16; 3] and u32 has BYTE_LEN 13 and packs
\* {0x12, 0x3456, [0x1020, 0x3040, 0x5060], 0x9abcdef0} to
\* 12 34 56 20 10 40 30 60 50 f0 de bc 9a.
C5_Layout13 ==
    (Written /\ ExactBuffer /\ schema = Layout13 /\ value = Layout13Value) =>
        /\ ByteLen(schema) = 13
        /\ wr.ok
        /\ bytes = <<\h12, \h34, \h56, \h20, \h10, \h40, \h30, \h60, \h50,
                     \hf0, \hde, \hbc, \h9a>>

C5_Witness ==
    pc = "written" /\ ExactBuffer /\ schema = Layout13 /\ value = Layout13Value /\ wr.ok

\* C6: order independence.  Replacing the byte order attribute of one field
\* leaves every field's span where it was and changes no byte outside the
\* span of that field.
C6_OrderIndependence ==
    (pc = "written" /\ wr.ok) =>
        \A k \in 1..Len(schema.fields), a \in GenAttrs :
            LET other == WithFieldAttrs(schema, k, a)
                w == write_bytes(other, value, before) IN
            Compiles(other) =>
                /\ w.ok
                /\ w.spans = wr.spans
                /\ \A i \in 1..Len(bytes) :
                      (i <= wr.spans[k][1] \/ i > wr.spans[k][2]) => w.bytes[i] = bytes[i]

\* A declaration in which changing the first field's attribute changes that
\* field's bytes.
C6_Witness ==
    /\ pc = "written" /\ wr.ok /\ ExactBuffer
    /\ Len(schema.fields) = 2
    /\ schema.fields[1].ty = Prim("u16")
    /\ schema.fields[2].ty = Prim("u16")
    /\ \E a \in GenAttrs :
          LET other == WithFieldAttrs(schema, 1, a) IN
          /\ Compiles(other)
          /\ Seg(write_bytes(other, value, before).bytes, wr.spans[1]) # Seg(bytes, wr.spans[1])

\* C10: short buffer on encode.  write_bytes on a buffer shorter than
\* BYTE_LEN fails and leaves the buffer as it was.
C10_ShortBufferUntouched ==
    (Written /\ Len(before) < ByteLen(schema)) => (~wr.ok /\ bytes = before)

\* What the code does on a short buffer: the call panics, and every field
\* that fits before the first one that does not has been written.
ShortBufferPartialWrite ==
    (Written /\ Len(before) < ByteLen(schema)) =>
        /\ ~wr.ok
        /\ \A k \in 1..Len(wr.spans) :
              Seg(bytes, wr.spans[k])
                = Seg(write_bytes(schema, value, Zeroed(ByteLen(schema))).bytes, wr.spans[k])

(***************************************************************************)
(* Properties of bitfields.                                                *)
(***************************************************************************)
\* The widths of the declaration sum to the width of its base type.
WidthsFill(ty) == SumSeq(ty.widths) = BaseBits(ty.base)

\* Every member value fits the width declared for it.
Fits(ty, m) == \A j \in 1..Len(ty.widths) : m[j] < Pow2(ty.widths[j])

\* The position of member k: the widths of the members declared before it.
RECURSIVE Lo(_, _)
Lo(ty, k) == IF k = 1 THEN 0 ELSE Lo(ty, k - 1) + ty.widths[k - 1]

\* The w bits of x from bit lo up.
BitsAt(x, lo, w) == (x \div Pow2(lo)) % Pow2(w)

\* C7: bitfield round trip.  When the widths sum to the width of the base
\* type, to_raw(from_raw(x)) = x for every x of the base type, and
\* from_raw(to_raw(v)) = v for every v whose members fit their widths.
C7_BitfieldRoundTrip ==
    WidthsFill(decl) =>
        /\ pc \in {"unpacked", "repacked"} => bf.ok
        /\ pc = "repacked" => packed = Returned(raw)
        /\ (pc \in {"packed", "reunpacked"} /\ Fits(decl, members)) => packed.ok
        /\ (pc = "reunpacked" /\ Fits(decl, members)) => bf = Returned(members)

\* Every member is narrower than the base type.
NarrowMembers(ty) == \A j \in 1..Len(ty.widths) : ty.widths[j] < BaseBits(ty.base)

\* The round trip holds for every declaration of narrow members.
BitfieldRoundTripNarrow == NarrowMembers(decl) => C7_BitfieldRoundTrip

\* The integer that holds member k at the bits from Lo(k) up.
RECURSIVE LayoutInt(_, _, _)
LayoutInt(ty, m, k) ==
    IF k > Len(ty.widths) THEN 0
    ELSE m[k] * Pow2(Lo(ty, k)) + LayoutInt(ty, m, k + 1)

\* The bytes of a base integer under a byte order.
BaseBytes(base, e, x) ==
    IF base = "u8" THEN <<x>>
    ELSE IF e = "Little" THEN <<x % 256, x \div 256>>
    ELSE <<x \div 256, x % 256>>

\* The base integer held by bytes under a byte order.
BaseInt(base, e, b) ==
    IF base = "u8" THEN b[1]
    ELSE IF e = "Little" THEN b[1] + 256 * b[2]
    ELSE 256 * b[1] + b[2]

\* C8: bit layout.  to_raw places member k at the bits
\* [w_0 + ... + w_{k-1}, w_0 + ... + w_k) and from_raw reads it from there,
\* whatever byte order the base integer is then written or read under;
\* TestBitfield {x: 0xf, y: 0x8f, z: 0x7} written big-endian is 78 ff, and
\* 33 44 read big-endian is {x: 0x4, y: 0x34, z: 0x3}.
C8_BitLayout ==
    WidthsFill(decl) =>
        /\ (pc = "packed" /\ Fits(decl, members)) =>
              /\ packed.ok
              /\ \A k \in 1..Len(decl.widths) :
                    BitsAt(packed.value[1], Lo(decl, k), decl.widths[k]) = members[k]
        /\ pc = "unpacked" =>
              /\ bf.ok
              /\ \A k \in 1..Len(decl.widths) :
                    bf.value[1][k] = BitsAt(raw, Lo(decl, k), decl.widths[k])
        /\ (pc = "packed_bytes" /\ Fits(decl, members)) =>
              /\ wr.ok
              /\ bytes = BaseBytes(decl.base, order, LayoutInt(decl, members, 1))
        /\ pc = "unpacked_bytes" =>
              /\ rd.ok
              /\ \A k \in 1..Len(decl.widths) :
                    rd.value[1][k]
                      = BitsAt(BaseInt(decl.base, order, bytes), Lo(decl, k), decl.widths[k])
        /\ (pc = "packed_bytes" /\ decl = TestBitfield /\ order = "Big"
               /\ members = <<\hf, \h8f, \h7>>) => bytes = <<\h78, \hff>>
        /\ (pc = "unpacked_bytes" /\ decl = TestBitfield /\ order = "Big"
               /\ bytes = <<\h33, \h44>>) => rd = Returned(<<\h4, \h34, \h3>>)

\* The layout holds for every declaration of narrow members.
BitLayoutNarrow == NarrowMembers(decl) => C8_BitLayout

\* C9 as stated: TestBitfield {x: 0xf, y: 0x8f, z: 0x7} packs to 0xff2f.
C9_PacksToFF2F ==
    (pc = "packed" /\ decl = TestBitfield /\ members = <<\hf, \h8f, \h7>>)
    => packed = Returned(\hff2f)

\* C9 amended: TestBitfield {x: 0xf, y: 0x8f, z: 0x7} packs to 0x78ff, x in
\* the low four bits, then y, then z in the high four.
C9_PacksTo78FF ==
    (pc = "packed" /\ decl = TestBitfield /\ members = <<\hf, \h8f, \h7>>)
    => packed = Returned(\h78ff)

C9_Witness ==
    pc = "packed" /\ decl = TestBitfield /\ members = <<\hf, \h8f, \h7>> /\ packed.ok

(***************************************************************************)
(* Properties of buffer lengths.                                           *)
(***************************************************************************)
\* C11: the buffer must have exactly BYTE_LEN bytes.  write_bytes and
\* read_bytes fail on every buffer whose length differs from BYTE_LEN,
\* longer as well as shorter.
C11_ExactLengthOnly ==
    /\ (pc = "written" /\ Len(before) # ByteLen(schema)) => ~wr.ok
    /\ (pc = "read_input" /\ Len(bytes) # ByteLen(schema)) => ~rd.ok

\* What the code does: a short buffer makes the call panic, and of a longer
\* one the first BYTE_LEN bytes are used and the others left alone (reading
\* a bitfield with a whole-width member aside, which fails by itself).
LongBufferAccepted ==
    /\ pc = "written" =>
          /\ wr.ok <=> Len(before) >= ByteLen(schema)
          /\ Len(before) > ByteLen(schema) =>
                /\ SubSeq(bytes, 1, ByteLen(schema))
                     = write_bytes(schema, value, Zeroed(ByteLen(schema))).bytes
                /\ SubSeq(bytes, ByteLen(schema) + 1, Len(bytes))
                     = SubSeq(before, ByteLen(schema) + 1, Len(before))
    /\ (pc = "read_input" /\ ~HasWholeWidthMember(schema)) =>
          /\ rd.ok <=> Len(bytes) >= ByteLen(schema)
          /\ Len(bytes) > ByteLen(schema) =>
                rd = read_bytes(schema, SubSeq(bytes, 1, ByteLen(schema)))

(***************************************************************************)
(* Properties of bitfield declarations.                                    *)
(***************************************************************************)
\* from_raw or to_raw has been called on the declaration.
BitfieldUsed ==
    pc \in {"unpacked", "repacked", "packed", "reunpacked", "packed_bytes", "unpacked_bytes"}

\* C12: bitfield width validity.  A declaration whose widths do not sum to
\* the width of its base type is rejected when it is made: nothing is ever
\* packed or unpacked with it.
C12_MismatchRejected == BitfieldUsed => WidthsFill(decl)

\* What the code does: a declaration whose widths do not sum to the width of
\* the base type is used like any other.  With narrow members from_raw and
\* to_raw return, from_raw ignoring the bits past the last member.
MismatchedUsable ==
    (~WidthsFill(decl) /\ NarrowMembers(decl)) =>
        /\ pc = "unpacked" =>
              /\ bf.ok
              /\ \A k \in 1..Len(decl.widths) :
                    bf.value[1][k] = BitsAt(raw, Lo(decl, k), decl.widths[k])
        /\ pc = "packed" => packed.ok
        /\ pc = "packed_bytes" => wr.ok
        /\ pc = "unpacked_bytes" => rd.ok

(***************************************************************************)
(* Properties of the derive macro's checks.                                *)
(***************************************************************************)
\* An attribute list that holds both byte order attributes.
StatedBoth(attrs) ==
    {"byte_struct_le", "byte_struct_be"} \subseteq {attrs[i] : i \in 1..Len(attrs)}

\* A declaration with both attributes on the struct or on one of its fields.
StatedConflict(ty) ==
    StatedBoth(ty.attrs) \/ \E k \in 1..Len(ty.fields) : StatedBoth(ty.fields[k].attrs)

\* C13: conflicting annotations.  A struct or a field that carries both
\* byte_struct_le and byte_struct_be, in either order, makes the derive fail
\* when the struct is defined, and no write_bytes / read_bytes is produced
\* for the struct; the derive fails this way for no other declaration.
C13_ConflictRejected ==
    /\ StatedConflict(schema) =>
          /\ pc \in {"declared", "rejected"}
          /\ pc = "rejected" =>
                /\ impl.status = "panic"
                /\ impl.write_bytes_fn = <<>>
                /\ impl.read_bytes_fn = <<>>
          /\ wr = NoWrite /\ rd = NoRead
    /\ impl.status = "panic" => StatedConflict(schema)

\* The derive has rejected a field that carries byte_struct_be and then
\* byte_struct_le in a struct that is fine otherwise.
C13_Witness ==
    /\ pc = "rejected" /\ impl.status = "panic"
    /\ schema = ConflictOnFieldBeLe

\* The derive has rejected each of the four conflicting declarations.
ConflictsAllRejected ==
    schema \in {ConflictOnStruct, ConflictOnStructLeBe, ConflictOnField, ConflictOnFieldBeLe}
    => (pc = "declared" \/ (pc = "rejected" /\ impl.status = "panic"))

\* A declaration without a struct-level order.
NoStructOrder(ty) ==
    /\ ty.derive = "ByteStruct"
    /\ \A i \in 1..Len(ty.attrs) : ty.attrs[i] \notin {"byte_struct_le", "byte_struct_be"}

\* Field k carries no byte order attribute.
Unannotated(ty, k) ==
    \A i \in 1..Len(ty.fields[k].attrs) :
        ty.fields[k].attrs[i] \notin {"byte_struct_le", "byte_struct_be"}

\* Field k has no order from anywhere and its type is not a derived struct.
UnresolvedField(ty, k) ==
    NoStructOrder(ty) /\ Unannotated(ty, k) /\ ty.fields[k].ty.kind # "struct"

\* C14: unresolvable order.  In a struct without a struct-level order a
\* field without attribute whose type is a primitive, a bitfield or an array
\* is bound to the plain write_bytes / read_bytes, which its type does not
\* have, so the struct is rejected and nothing is packed or unpacked with
\* it; in an accepted struct without struct-level order every field without
\* attribute is a derived struct.
C14_UnresolvedRejected ==
    /\ (\E k \in 1..Len(schema.fields) : UnresolvedField(schema, k)) =>
          /\ pc \in {"declared", "rejected"}
          /\ wr = NoWrite /\ rd = NoRead
          /\ (pc = "rejected" /\ ~StatedConflict(schema)) =>
                /\ impl.status = "compile_error"
                /\ \A k \in 1..Len(schema.fields) :
                      UnresolvedField(schema, k) =>
                          /\ impl.write_bytes_fn[k] = "write_bytes"
                          /\ impl.read_bytes_fn[k] = "read_bytes"
    /\ (pc \notin {"declared", "rejected"} /\ NoStructOrder(schema)) =>
          \A k \in 1..Len(schema.fields) :
              Unannotated(schema, k) =>
                  /\ schema.fields[k].ty.kind = "struct"
                  /\ impl.write_bytes_fn[k] = "write_bytes"
                  /\ impl.read_bytes_fn[k] = "read_bytes"

\* The struct whose one field is a bitfield without any order was rejected
\* by the compiler.
C14_Witness ==
    /\ pc = "rejected" /\ impl.status = "compile_error"
    /\ schema = UnresolvedBitfield
    /\ impl.write_bytes_fn = <<"write_bytes">>

\* A struct without struct-level order whose field without attribute is a
\* derived struct is accepted and packs.
UnannotatedStructAccepted ==
    (schema = Struct("ByteStruct", NoAttr, <<Field(TestSubStruct2, NoAttr)>>)
        /\ pc = "written" /\ ExactBuffer) => wr.ok

(***************************************************************************)
(* Properties of oversized bitfield members.                               *)
(***************************************************************************)
\* The members, each reduced to the low bits of its declared width.
Masked(ty, m) == [j \in 1..Len(m) |-> m[j] % Pow2(ty.widths[j])]

\* C15: to_raw masks every member to its declared width.  to_raw of members
\* of which some exceed their width equals to_raw of the same members
\* reduced to their low bits.
C15_PackMasks ==
    (pc = "packed" /\ NarrowMembers(decl)) =>
        packed = to_raw(decl, Masked(decl, members))

\* The members shifted to their positions as they are, OR-ed from k on.
RECURSIVE ShiftedOr(_, _, _)
ShiftedOr(ty, m, k) ==
    IF k > Len(ty.widths) THEN 0
    ELSE BitOr((m[k] % Pow2(BaseBits(ty.base) - Lo(ty, k))) * Pow2(Lo(ty, k)),
               ShiftedOr(ty, m, k + 1))

\* What the code does: every member is shifted to its position unmasked, so
\* the bits of a member past its width land in the members after it, and
\* only bits past the width of the base type are dropped.
PackDoesNotMask ==
    (pc = "packed" /\ NarrowMembers(decl)) =>
        packed = Returned(ShiftedOr(decl, members, 1))

(***************************************************************************)
(* The caller of a primitive's write_bytes_default_le / _be and            *)
(* read_bytes_default_le / _be.                                            *)
(***************************************************************************)
\* The values of a primitive explored: those of the tests and, for the
\* floats, zero, a NaN, and a bit pattern whose bytes read the same in both
\* directions.
PrimValues(name) ==
    {PrimSample(name, k) : k \in 1..4}
    \cup (CASE name = "f32" -> {[bits |-> <<0, 0>>], [bits |-> <<\h7fc0, \h0001>>],
                                [bits |-> <<\h1234, \h3412>>]}
            [] name = "f64" -> {[bits |-> <<0, 0, 0, 0>>],
                                [bits |-> <<\h7ff8, 0, 0, \h0001>>],
                                [bits |-> <<\h1234, \h5678, \h7856, \h3412>>]}
            [] OTHER        -> {})

InitPrim ==
    /\ overflow_checks \in BOOLEAN
    /\ pc = "have_value"
    /\ \E name \in PrimNames : schema = Prim(name) /\ value \in PrimValues(name)
    /\ impl = NoImpl
    /\ bytes = <<>>
    /\ before = <<>>
    /\ wr = NoWrite
    /\ rd = NoRead
    /\ decl = NoBitfield
    /\ raw = 0
    /\ members = <<>>
    /\ order = "Unspecified"
    /\ bf = Panicked
    /\ packed = Panicked

\* value.write_bytes_default_le / _be(&mut buffer) on a zeroed buffer.
WriteDefault ==
    /\ pc = "have_value"
    /\ order' \in ByteOrders
    /\ \E n \in BufLens(schema) : before' = Zeroed(n)
    /\ wr' = write_bytes_default(order', schema, value, before')
    /\ bytes' = wr'.bytes
    /\ pc' = "written_default"
    /\ UNCHANGED <<decl, raw, members, bf, packed, rd>>
    /\ StructVarsUnchanged

\* read_bytes_default_le / _be, of the order written, on the bytes written.
ReadDefaultBack ==
    /\ pc = "written_default"
    /\ wr.ok
    /\ rd' = read_bytes_default(order, schema, bytes)
    /\ pc' = "read_default_back"
    /\ UNCHANGED <<decl, raw, members, order, bf, packed, bytes, before, wr>>
    /\ StructVarsUnchanged

\* read_bytes_default_le / _be on input bytes of some length.
ReadDefaultInput ==
    /\ pc = "have_value"
    /\ order' \in ByteOrders
    /\ \E n \in BufLens(schema) : bytes' = InputBytes(n)
    /\ rd' = read_bytes_default(order', schema, bytes')
    /\ pc' = "read_default_input"
    /\ UNCHANGED <<decl, raw, members, bf, packed, before, wr>>
    /\ StructVarsUnchanged

NextPrim == WriteDefault \/ ReadDefaultBack \/ ReadDefaultInput

SpecPrim == InitPrim /\ [][NextPrim]_vars

(***************************************************************************)
(* Properties of the primitives.                                           *)
(***************************************************************************)
\* The first BYTE_LEN bytes of the buffer in play.
OwnBytes == SubSeq(bytes, 1, ByteLen(schema))

\* C16: big-endian float decode.  read_bytes_default_be of f32 and of f64
\* takes the buffer as a big-endian integer, the first byte the most
\* significant, and so returns the bit pattern write_bytes_default_be wrote.
C16_BigEndianFloatDecode ==
    (order = "Big" /\ IsFloat(schema.name)) =>
        /\ pc = "read_default_back" => rd = Returned(value)
        /\ (pc = "read_default_input" /\ Len(bytes) >= ByteLen(schema)) =>
              rd = Returned([bits |-> from_be_bytes(BitsType(schema.name), OwnBytes)])

\* What the code does: every primitive under every order reads back what
\* was written and reads its bytes in the order asked for, except f64 under
\* the big-endian order, which takes the first byte as the least
\* significant.
DecodeElsewhere ==
    /\ ~(order = "Big" /\ schema.name = "f64") =>
          /\ pc = "read_default_back" => rd = Returned(value)
          /\ (pc = "read_default_input" /\ Len(bytes) >= ByteLen(schema)) =>
                rd.ok /\ to_bits(schema.name, rd.value[1])
                           = (IF order = "Big"
                              THEN from_be_bytes(BitsType(schema.name), OwnBytes)
                              ELSE from_le_bytes(BitsType(schema.name), OwnBytes))
    /\ (order = "Big" /\ schema.name = "f64"
          /\ pc \in {"read_default_back", "read_default_input"}
          /\ Len(bytes) >= ByteLen(schema)) =>
          rd = Returned([bits |-> from_le_bytes("u64", OwnBytes)])

(***************************************************************************)
(* Properties of the shifts of from_raw and to_raw.                        *)
(***************************************************************************)
\* C17: from_raw and to_raw are well defined for every declaration whose
\* widths sum to the width of the base type, one member of the whole width
\* included: no shift amount reaches the width of the base type, the mask
\* (1 << w) - 1 is the w low bits, both functions return, and every
\* member extracted is the w bits at its position.
C17_ShiftsWellDefined ==
    (WidthsFill(decl) /\ BitfieldUsed) =>
        /\ \A k \in 1..Len(decl.widths) :
              /\ decl.widths[k] < BaseBits(decl.base)
              /\ Lo(decl, k) < BaseBits(decl.base)
              /\ shl(decl.base, 1, decl.widths[k]).ok
              /\ shl(decl.base, 1, decl.widths[k]).val - 1 = Pow2(decl.widths[k]) - 1
        /\ pc = "unpacked" =>
              /\ bf.ok
              /\ Len(bf.value[1]) = Len(decl.widths)
              /\ \A k \in 1..Len(decl.widths) :
                    bf.value[1][k] = (raw \div Pow2(Lo(decl, k))) % Pow2(decl.widths[k])
        /\ pc = "packed" => packed.ok
        /\ pc = "unpacked_bytes" => rd.ok

\* What the code does with one member as wide as the base type: from_raw
\* shifts by the whole width, which panics when the build checks overflow
\* and otherwise shifts by 0, making the mask 0 and the member 0; to_raw
\* shifts by 0 and returns the member.
WholeWidthMember ==
    (WidthsFill(decl) /\ ~NarrowMembers(decl)) =>
        /\ Len(decl.widths) = 1
        /\ pc \in {"unpacked", "reunpacked"} =>
              bf = (IF overflow_checks THEN Panicked ELSE Returned(<<0>>))
        /\ pc = "unpacked_bytes" =>
              rd = (IF overflow_checks THEN Panicked ELSE Returned(<<0>>))
        /\ pc = "packed" => packed = Returned(members[1] % Pow2(BaseBits(decl.base)))

\* With every member narrower than the base type the shifts are all
\* defined.
ShiftsWellDefinedNarrow == NarrowMembers(decl) => C17_ShiftsWellDefined

====
